---- MODULE Spec2Model ----
(***************************************************************************)
(* Model of src/src/index.ts: one run of the Buffer video uploader.        *)
(* main() finds the first .mp4 in ./uploads, picks a caption, builds a     *)
(* BufferUploader from the environment, runs the four remote stages        *)
(* (presign, PUT, register, create post) and moves the file to ./done.     *)
(*                                                                         *)
(* The local file system is changed by this process only; existsSync,      *)
(* readFileSync and renameSync may still fail, which is modelled as a      *)
(* nondeterministic outcome of the call.  Remote responses are inputs.     *)
(***************************************************************************)
EXTENDS Integers, Sequences, FiniteSets, TLC

\* ------------------------------------------------------------------ bounds
MaxFiles == 2       \* entries in the listing of ./uploads
MaxCaptions == 2    \* entries in the captions array of captions.json

\* --------------------------------------------------- JavaScript values
Undefined == [t |-> "undefined"]
Str(s) == [t |-> "str", v |-> s]
Obj(f) == [t |-> "obj", f |-> f]

\* ToBoolean: undefined/null and '' are falsy, non-empty strings and objects truthy
Truthy(x) == x.t = "obj" \/ (x.t = "str" /\ x.v # "")

\* property read x.k (x?.k when x is undefined)
Get(x, k) == IF x.t = "obj" /\ k \in DOMAIN x.f THEN x.f[k] ELSE Undefined

\* a || b
OrElse(a, b) == IF Truthy(a) THEN a ELSE b

\* ------------------------------------------------------- file names
\* names are sequences of characters so that toLowerCase/endsWith are computed
Mp4Suffix == <<".", "m", "p", "4">>

FileNames ==
    { <<"a", ".", "m", "p", "4">>,
      <<"B", ".", "M", "P", "4">>,
      <<"n", ".", "t", "x", "t">>,
      <<"m", "p", "4">> }

LowerChar(c) ==
    CASE c = "B" -> "b"
      [] c = "M" -> "m"
      [] c = "P" -> "p"
      [] OTHER -> c

\* mutant: the comparison is made case-sensitive
ToLowerCase_Identity(s) == s

ToLowerCase(s) == [i \in DOMAIN s |-> LowerChar(s[i])]

EndsWith(s, suf) ==
    /\ Len(s) >= Len(suf)
    /\ SubSeq(s, Len(s) - Len(suf) + 1, Len(s)) = suf

\* files.filter(file => file.toLowerCase().endsWith('.mp4'))
RECURSIVE Mp4Filter(_)
Mp4Filter(files) ==
    IF files = <<>> THEN <<>>
    ELSE IF EndsWith(ToLowerCase(Head(files)), Mp4Suffix)
         THEN <<Head(files)>> \o Mp4Filter(Tail(files))
         ELSE Mp4Filter(Tail(files))

NoPath == [t |-> "null"]
PathJoin(dir, name) == [t |-> "path", dir |-> dir, name |-> name]
Basename(p) == p.name

\* directory listings: sequences of distinct names, at most MaxFiles long
Listings ==
    UNION { { s \in [1..n -> FileNames] : \A i, j \in 1..n : i # j => s[i] # s[j] }
            : n \in 0..MaxFiles }

\* ------------------------------------------------------- environment
EnvValues == {Undefined, Str(""), Str("val")}

Environments ==
    [BUFFER_COOKIES : EnvValues, BUFFER_ORGANIZATION_ID : EnvValues,
     BUFFER_CHANNEL_ID : EnvValues, BUFFER_USER_ID : {Undefined, Str("uid")}]

\* ------------------------------------------------------- captions.json
CaptionTexts == {"A", "B"}
DefaultCaption == "Check out this video!"

CaptionLists == UNION { [1..n -> CaptionTexts] : n \in 0..MaxCaptions }

CaptionsFiles ==
    { [kind |-> k, captions |-> <<>>] : k \in {"missing", "invalid", "nofield", "notarray"} }
    \cup { [kind |-> "list", captions |-> l] : l \in CaptionLists }

\* Math.random() is r / RandomResolution for r in RandomValues, so it lies in [0, 1)
RandomResolution == 2 * (MaxCaptions + 1)
RandomValues == 0 .. (RandomResolution - 1)

\* mutant: Math.floor(Math.random() * (length - 1))
RandomIndex_SkipLast(r, length) == ((r * (length - 1)) \div RandomResolution) + 1

\* Math.floor(Math.random() * length), as a 1-based index
RandomIndex(r, length) == ((r * length) \div RandomResolution) + 1

getRandomCaption(file, r) ==
    IF file.kind = "missing" THEN DefaultCaption
    ELSE IF file.kind = "invalid" THEN DefaultCaption
    ELSE IF file.kind = "nofield" \/ file.kind = "notarray" \/ Len(file.captions) = 0
         THEN DefaultCaption
    ELSE file.captions[RandomIndex(r, Len(file.captions))]

\* ------------------------------------------------------- remote responses
StringValues == {Undefined, Str(""), Str("x")}

\* axios outcome: a 2xx response with a body, a non-2xx response (error.response
\* set), or an error without a response
HttpError == [kind |-> "http_error", data |-> Obj([error |-> Str("x")])]
NetworkError == [kind |-> "network_error", data |-> Undefined]
Ok(data) == [kind |-> "ok", data |-> data]

PresignBodies ==
    { Obj([data |-> Obj([s3PreSignedURL |-> Obj([url |-> u, key |-> k])])])
        : u \in StringValues, k \in StringValues }
    \cup { Obj([errors |-> Str("x")]) }

PresignResponses == {HttpError, NetworkError} \cup { Ok(b) : b \in PresignBodies }

PutResponses == {HttpError, NetworkError, Ok(Undefined)}

MediaDetails == { Undefined } \cup { Obj([location |-> l]) : l \in StringValues }

MediaRecords ==
    { Obj([upload_id |-> i, title |-> Str("t"), details |-> d])
        : i \in StringValues, d \in MediaDetails }

RegisterBodies ==
    { Undefined, Str("x"), Obj([error |-> Str("x")]), Obj([result |-> Undefined]) }
    \cup { Obj([result |-> m]) : m \in MediaRecords }
    \cup { Obj([result |-> Obj([result |-> m])]) : m \in MediaRecords }

RegisterResponses == {HttpError, NetworkError} \cup { Ok(b) : b \in RegisterBodies }

PostResponses == {HttpError, NetworkError, Ok(Obj([success |-> Str("x")]))}

\* ------------------------------------------------------------------ state
VARIABLES
    env,            \* process.env
    captionsFile,   \* ./captions.json
    uploadsExists,  \* ./uploads exists
    uploads,        \* listing of ./uploads
    doneExists,     \* ./done exists
    done,           \* names in ./done
    pc,             \* position in main()
    videoPath,      \* main: videoPath
    caption,        \* main: caption
    uploader,       \* BufferUploader fields
    fileName,       \* uploadVideo: fileName
    target,         \* uploadVideo: preSignedURL, s3Key
    uploadResponse, \* uploadVideo: uploadResponse
    log,            \* remote calls issued, in order, each with its outcome
    error,          \* error.message printed by main's catch
    exitCode,       \* process exit status, Running until the process ends
    fs0             \* the two directories as the process found them (never written)

vars == <<env, captionsFile, uploadsExists, uploads, doneExists, done, pc, videoPath,
          caption, uploader, fileName, target, uploadResponse, log, error, exitCode,
          fs0>>

Running == -1

NoUploader == [cookies |-> "", organizationId |-> "", channelId |-> "", userId |-> ""]

Init ==
    /\ env \in Environments
    /\ captionsFile \in CaptionsFiles
    /\ uploadsExists \in BOOLEAN
    /\ uploads \in (IF uploadsExists THEN Listings ELSE {<<>>})
    /\ doneExists \in BOOLEAN
    /\ done \in (IF doneExists THEN {{}, {<<"a", ".", "m", "p", "4">>}} ELSE {{}})
    /\ pc = "find"
    /\ videoPath = NoPath
    /\ caption = ""
    /\ uploader = NoUploader
    /\ fileName = <<>>
    /\ target = [url |-> Undefined, key |-> Undefined]
    /\ uploadResponse = Undefined
    /\ log = <<>>
    /\ error = ""
    /\ exitCode = Running
    /\ fs0 = [uploadsExists |-> uploadsExists, uploads |-> uploads,
              doneExists |-> doneExists, done |-> done]

\* main's catch block: console.error(error.message); process.exit(1)
Fail(msg) ==
    /\ pc' = "exited"
    /\ error' = msg
    /\ exitCode' = 1


\* ------------------------------------------------------- findVideoFile
\* mutant: the first entry of the listing, whatever its extension
findVideoFile_NoFilter(exists, files) ==
    IF ~exists THEN NoPath
    ELSE IF Len(files) = 0 THEN NoPath
    ELSE PathJoin("uploads", files[1])

\* the first .mp4 of the listing, or null; a missing ./uploads yields null
findVideoFile(exists, files) ==
    IF ~exists THEN NoPath
    ELSE IF Len(Mp4Filter(files)) = 0 THEN NoPath
    ELSE PathJoin("uploads", Mp4Filter(files)[1])

\* main: findVideoFile(), then process.exit(0) when nothing was found
MainFind ==
    /\ pc = "find"
    /\ uploadsExists' = TRUE
    /\ videoPath' = findVideoFile(uploadsExists, uploads)
    /\ \/ /\ videoPath' = NoPath
          /\ pc' = "exited"
          /\ exitCode' = 0
       \/ /\ videoPath' # NoPath
          /\ pc' = "caption"
          /\ exitCode' = exitCode
    /\ UNCHANGED <<env, captionsFile, fs0, uploads, doneExists, done, caption, uploader,
                   fileName, target, uploadResponse, log, error>>

\* main: const caption = getRandomCaption()
MainCaption ==
    /\ pc = "caption"
    /\ \E r \in RandomValues : caption' = getRandomCaption(captionsFile, r)
    /\ pc' = "construct"
    /\ UNCHANGED <<env, captionsFile, fs0, uploadsExists, uploads, doneExists, done, videoPath,
                   uploader, fileName, target, uploadResponse, log, error, exitCode>>

\* ------------------------------------------------------- BufferUploader
\* the fields the constructor sets: process.env.X || ''
ConstructorFields(e) ==
    [cookies |-> OrElse(e.BUFFER_COOKIES, Str("")).v,
     organizationId |-> OrElse(e.BUFFER_ORGANIZATION_ID, Str("")).v,
     channelId |-> OrElse(e.BUFFER_CHANNEL_ID, Str("")).v,
     userId |-> OrElse(e.BUFFER_USER_ID, Str("")).v]

\* mutant: the channel id is not checked
MissingRequired_NoChannel(u) ==
    \/ u.cookies = ""
    \/ u.organizationId = ""

\* !this.cookies || !this.organizationId || !this.channelId
MissingRequired(u) ==
    \/ u.cookies = ""
    \/ u.organizationId = ""
    \/ u.channelId = ""

\* main: new BufferUploader()
MainConstruct ==
    /\ pc = "construct"
    /\ uploader' = ConstructorFields(env)
    /\ \/ /\ MissingRequired(uploader')
          /\ Fail("Missing required environment variables. Please check your .env file.")
       \/ /\ ~MissingRequired(uploader')
          /\ pc' = "upload"
          /\ UNCHANGED <<error, exitCode>>
    /\ UNCHANGED <<env, captionsFile, fs0, uploadsExists, uploads, doneExists, done, videoPath,
                   caption, fileName, target, uploadResponse, log>>

\* uploadVideo, up to step 1: fs.existsSync(filePath), path.basename(filePath)
UploadVideoStart ==
    /\ pc = "upload"
    /\ \E exists \in BOOLEAN :
          \/ /\ ~exists
             /\ Fail("File not found")
             /\ UNCHANGED fileName
          \/ /\ exists
             /\ fileName' = Basename(videoPath)
             /\ pc' = "presign"
             /\ UNCHANGED <<error, exitCode>>
    /\ UNCHANGED <<env, captionsFile, fs0, uploadsExists, uploads, doneExists, done, videoPath,
                   caption, uploader, target, uploadResponse, log>>

\* a remote call as the remote side sees it: the stage, the request, the response
Call(stage, req, resp) == [call |-> stage, req |-> req, resp |-> resp]

\* response.data?.data?.s3PreSignedURL?.url and .key
PresignUrl(body) == Get(Get(Get(body, "data"), "s3PreSignedURL"), "url")
PresignKey(body) == Get(Get(Get(body, "data"), "s3PreSignedURL"), "key")

\* mutant: only the url is checked
PresignValid_UrlOnly(body) == Truthy(PresignUrl(body))

PresignValid(body) == Truthy(PresignUrl(body)) /\ Truthy(PresignKey(body))

\* axios.post rejects unless the status is 2xx; the catch block rethrows
PresignThrows(resp) == resp.kind # "ok"

\* step 1: getS3PreSignedURL(fileName, mimeType)
GetS3PreSignedURL ==
    /\ pc = "presign"
    /\ \E resp \in PresignResponses :
          /\ log' = Append(log, Call("presign",
                                     [organizationId |-> uploader.organizationId,
                                      fileName |-> fileName], resp))
          /\ \/ /\ PresignThrows(resp)
                /\ resp.kind = "http_error"
                /\ Fail("Failed to get S3 pre-signed URL: response")
                /\ UNCHANGED target
             \/ /\ PresignThrows(resp)
                /\ resp.kind # "http_error"
                /\ Fail("network error")
                /\ UNCHANGED target
             \/ /\ ~PresignThrows(resp)
                /\ ~PresignValid(resp.data)
                /\ Fail("Failed to get S3 pre-signed URL")
                /\ UNCHANGED target
             \/ /\ ~PresignThrows(resp)
                /\ PresignValid(resp.data)
                /\ target' = [url |-> PresignUrl(resp.data), key |-> PresignKey(resp.data)]
                /\ pc' = "put"
                /\ UNCHANGED <<error, exitCode>>
    /\ UNCHANGED <<env, captionsFile, fs0, uploadsExists, uploads, doneExists, done, videoPath,
                   caption, uploader, fileName, uploadResponse>>

\* mutant: the catch block swallows the error
PutThrows_Swallowed(resp) == FALSE

\* axios.put rejects unless the status is 2xx; the catch block rethrows
PutThrows(resp) == resp.kind # "ok"

\* step 2: uploadToS3(preSignedURL, filePath, mimeType)
UploadToS3 ==
    /\ pc = "put"
    /\ \E readOk \in BOOLEAN, resp \in PutResponses :
          \/ /\ ~readOk
             /\ Fail("read failed")
             /\ UNCHANGED log
          \/ /\ readOk
             /\ log' = Append(log, Call("put", [url |-> target.url], resp))
             /\ \/ /\ PutThrows(resp)
                   /\ resp.kind = "http_error"
                   /\ Fail("Failed to upload to S3: status")
                \/ /\ PutThrows(resp)
                   /\ resp.kind # "http_error"
                   /\ Fail("network error")
                \/ /\ ~PutThrows(resp)
                   /\ pc' = "register"
                   /\ UNCHANGED <<error, exitCode>>
    /\ UNCHANGED <<env, captionsFile, fs0, uploadsExists, uploads, doneExists, done, videoPath,
                   caption, uploader, fileName, target, uploadResponse>>

\* axios.post rejects unless the status is 2xx; the catch block rethrows
RegisterThrows(resp) == resp.kind # "ok"

\* 'result' in x throws a TypeError when x is a truthy non-object
RegisterInThrows(body) == Truthy(body) /\ body.t # "obj"

\* response.data && 'result' in response.data && response.data.result
RegisterValid(body) ==
    /\ Truthy(body)
    /\ body.t = "obj"
    /\ "result" \in DOMAIN body.f
    /\ Truthy(body.f["result"])

\* return response.data as UploadMediaResponse
RegisterReturn(body) == body

\* step 3: registerUpload(s3Key)
RegisterUpload ==
    /\ pc = "register"
    /\ \E resp \in RegisterResponses :
          /\ log' = Append(log, Call("register", [key |-> target.key], resp))
          /\ \/ /\ RegisterThrows(resp)
                /\ resp.kind = "http_error"
                /\ Fail("Failed to register upload: response")
                /\ UNCHANGED uploadResponse
             \/ /\ RegisterThrows(resp)
                /\ resp.kind # "http_error"
                /\ Fail("network error")
                /\ UNCHANGED uploadResponse
             \/ /\ ~RegisterThrows(resp)
                /\ RegisterInThrows(resp.data)
                /\ Fail("TypeError")
                /\ UNCHANGED uploadResponse
             \/ /\ ~RegisterThrows(resp)
                /\ ~RegisterInThrows(resp.data)
                /\ ~RegisterValid(resp.data)
                /\ Fail("Failed to register upload: Unexpected response structure")
                /\ UNCHANGED uploadResponse
             \/ /\ ~RegisterThrows(resp)
                /\ RegisterValid(resp.data)
                /\ uploadResponse' = RegisterReturn(resp.data)
                /\ pc' = "post"
                /\ UNCHANGED <<error, exitCode>>
    /\ UNCHANGED <<env, captionsFile, fs0, uploadsExists, uploads, doneExists, done, videoPath,
                   caption, uploader, fileName, target>>

\* !uploadResponse.result || !uploadResponse.result.details
DetailsMissing(r) ==
    \/ ~Truthy(Get(r, "result"))
    \/ ~Truthy(Get(Get(r, "result"), "details"))

\* the media part of postData, with profile_ids and text
PostData(r, text, channelId) ==
    [id |-> Get(Get(r, "result"), "upload_id"),
     title |-> Get(Get(r, "result"), "title"),
     location |-> Get(Get(Get(r, "result"), "details"), "location"),
     transcoded_location |-> Get(Get(Get(r, "result"), "details"), "location"),
     text |-> text,
     profile_ids |-> <<channelId>>]

\* mutant: the catch block swallows the error
PostThrows_Swallowed(resp) == FALSE

\* axios.post rejects unless the status is 2xx; the catch block rethrows
PostThrows(resp) == resp.kind # "ok"

\* step 4: createPost(uploadResponse, text)
CreatePost ==
    /\ pc = "post"
    /\ \E resp \in PostResponses :
          \/ /\ DetailsMissing(uploadResponse)
             /\ Fail("Video details not found in upload response")
             /\ UNCHANGED log
          \/ /\ ~DetailsMissing(uploadResponse)
             /\ log' = Append(log, Call("post",
                                        PostData(uploadResponse, caption, uploader.channelId),
                                        resp))
             /\ \/ /\ PostThrows(resp)
                   /\ resp.kind = "http_error"
                   /\ Fail("Failed to create post: response")
                \/ /\ PostThrows(resp)
                   /\ resp.kind # "http_error"
                   /\ Fail("network error")
                \/ /\ ~PostThrows(resp)
                   /\ pc' = "move"
                   /\ UNCHANGED <<error, exitCode>>
    /\ UNCHANGED <<env, captionsFile, fs0, uploadsExists, uploads, doneExists, done, videoPath,
                   caption, uploader, fileName, target, uploadResponse>>

\* ------------------------------------------------------- moveVideoToDone
\* mutant: the file is copied, not renamed
Remove_Nothing(files, name) == files

\* fs.renameSync: the entry leaves the source directory
RECURSIVE Remove(_, _)
Remove(files, name) ==
    IF files = <<>> THEN <<>>
    ELSE IF Head(files) = name THEN Remove(Tail(files), name)
    ELSE <<Head(files)>> \o Remove(Tail(files), name)

\* main: moveVideoToDone(videoPath), and the normal end of main (exit status 0)
MoveVideoToDone ==
    /\ pc = "move"
    /\ doneExists' = TRUE
    /\ \E renameOk \in BOOLEAN :
          \/ /\ renameOk
             /\ uploads' = Remove(uploads, Basename(videoPath))
             /\ done' = done \cup {Basename(videoPath)}
             /\ pc' = "exited"
             /\ exitCode' = 0
             /\ UNCHANGED error
          \/ /\ ~renameOk
             /\ Fail("rename failed")
             /\ UNCHANGED <<uploads, done>>
    /\ UNCHANGED <<env, captionsFile, fs0, uploadsExists, videoPath, caption, uploader,
                   fileName, target, uploadResponse, log>>

Next ==
    \/ MainFind
    \/ MainCaption
    \/ MainConstruct
    \/ UploadVideoStart
    \/ GetS3PreSignedURL
    \/ UploadToS3
    \/ RegisterUpload
    \/ CreatePost
    \/ MoveVideoToDone

Spec == Init /\ [][Next]_vars

PcValues ==
    {"find", "caption", "construct", "upload", "presign", "put", "register", "post",
     "move", "exited"}

TypeOK ==
    /\ pc \in PcValues
    /\ exitCode \in {Running, 0, 1}
    /\ (pc = "exited") <=> (exitCode # Running)
    /\ Len(log) <= 4

\* =================================================================== claims
\* The notions the claims use, stated on the facts of a run (the environment, the
\* directories as found, the calls the remote side saw), not on the code's tests.

Exited == pc = "exited"
Selected == videoPath # NoPath

NonEmptyString(x) == x.t = "str" /\ x.v # ""

\* a name ending in .mp4, in any letter case
IsMp4Name(n) ==
    /\ Len(n) >= 4
    /\ n[Len(n) - 3] = "."
    /\ n[Len(n) - 2] \in {"m", "M"}
    /\ n[Len(n) - 1] \in {"p", "P"}
    /\ n[Len(n)] = "4"

\* the intake directory held a video file when the run started
HadVideo == \E i \in DOMAIN fs0.uploads : IsMp4Name(fs0.uploads[i])

CredentialMissing(v) == ~NonEmptyString(v)

RequiredCredentialMissing ==
    \/ CredentialMissing(env.BUFFER_COOKIES)
    \/ CredentialMissing(env.BUFFER_ORGANIZATION_ID)
    \/ CredentialMissing(env.BUFFER_CHANNEL_ID)

ConfigurationError == "Missing required environment variables. Please check your .env file."

FilesUntouched ==
    /\ uploads = fs0.uploads
    /\ done = fs0.done
    /\ doneExists = fs0.doneExists

\* a response that lacks a field its stage requires
LacksRequiredField(c) ==
    /\ c.resp.kind = "ok"
    /\ \/ /\ c.call = "presign"
          /\ \/ ~NonEmptyString(Get(Get(Get(c.resp.data, "data"), "s3PreSignedURL"), "url"))
             \/ ~NonEmptyString(Get(Get(Get(c.resp.data, "data"), "s3PreSignedURL"), "key"))
       \/ /\ c.call = "register"
          /\ Get(c.resp.data, "result").t # "obj"

\* the stage's call failed: no 2xx response, or one lacking a required field
StageFailed(c) == c.resp.kind # "ok" \/ LacksRequiredField(c)

PostSucceeded == \E i \in DOMAIN log : log[i].call = "post" /\ ~StageFailed(log[i])

StageOrder == <<"presign", "put", "register", "post">>

\* ---------------------------------------------------------------------- C1
\* C1: when a video file was selected and a required credential (cookie,
\* organization id, channel id) is missing or empty, the run fails with no remote
\* call made; the configuration failure never happens when only the user id is
\* missing.
C1_MissingCredentialFailsBeforeAnyCall ==
    /\ (Selected /\ RequiredCredentialMissing) =>
          /\ log = <<>>
          /\ pc \in {"caption", "construct", "exited"}
          /\ Exited => (exitCode = 1 /\ error = ConfigurationError)
    /\ (Exited /\ error = ConfigurationError) => RequiredCredentialMissing

C1_Witness ==
    /\ Exited
    /\ Selected
    /\ RequiredCredentialMissing
    /\ exitCode = 1
    /\ env.BUFFER_USER_ID = Str("uid")

\* ---------------------------------------------------------------------- C2
\* C2 (as stated): a missing required credential always ends the run with exit
\* status 1, whatever the intake directory contains.
C2_MissingCredentialAlwaysExitsOne ==
    (Exited /\ RequiredCredentialMissing) => exitCode = 1

\* C2 (amended): with a required credential missing, the run ends with exit status
\* 1 exactly when the intake directory held a video file; with no video file (or no
\* intake directory) it ends with status 0, the credentials never being read.
C2_MissingCredentialExitsOneIffVideo ==
    (Exited /\ RequiredCredentialMissing) =>
        /\ HadVideo => (exitCode = 1 /\ error = ConfigurationError)
        /\ ~HadVideo => (exitCode = 0 /\ uploader = NoUploader)

C2_Witness ==
    /\ Exited
    /\ RequiredCredentialMissing
    /\ ~HadVideo
    /\ exitCode = 0

\* ---------------------------------------------------------------------- C3
\* C3: with no video file in the intake directory (or no intake directory, which
\* is then created) the process exits with status 0, no remote call is ever made
\* and no file is moved.
C3_NoVideoExitsZeroWithoutCalls ==
    ~HadVideo =>
        /\ log = <<>>
        /\ FilesUntouched
        /\ ~Selected
        /\ pc \in {"find", "exited"}
        /\ Exited => (exitCode = 0 /\ uploadsExists)

C3_Witness ==
    /\ Exited
    /\ ~HadVideo
    /\ ~fs0.uploadsExists
    /\ uploadsExists
    /\ exitCode = 0
    /\ ~RequiredCredentialMissing

\* ---------------------------------------------------------------------- C4
\* C4: after a run in which the four stages succeed and the move succeeds, the
\* selected file is in the completion directory under its base name, is no longer
\* in the intake directory, and the exit status is 0.
C4_SuccessfulRunMovesFile ==
    (Exited /\ PostSucceeded /\ error # "rename failed") =>
        /\ exitCode = 0
        /\ Selected
        /\ \E i \in DOMAIN fs0.uploads : fs0.uploads[i] = Basename(videoPath)
        /\ IsMp4Name(Basename(videoPath))
        /\ doneExists
        /\ Basename(videoPath) \in done
        /\ \A i \in DOMAIN uploads : uploads[i] # Basename(videoPath)

C4_Witness ==
    /\ Exited
    /\ exitCode = 0
    /\ Len(log) = 4
    /\ Basename(videoPath) \in done
    /\ ~fs0.doneExists

\* ---------------------------------------------------------------------- C5
\* C5: the selected file leaves the intake directory only after the post-creation
\* call has succeeded: until then, and in every run that fails at a stage, both
\* directories are as they were found; the file is either still in the intake
\* directory or, the run having ended with status 0, in the completion directory.
C5_FileMovesOnlyAfterPost ==
    /\ ~PostSucceeded => FilesUntouched
    /\ (Exited /\ exitCode = 1) => (uploads = fs0.uploads /\ done = fs0.done)
    /\ Selected =>
          \/ /\ \E i \in DOMAIN uploads : uploads[i] = Basename(videoPath)
             /\ uploads = fs0.uploads
             /\ done = fs0.done
             /\ ~(Exited /\ exitCode = 0)
          \/ /\ \A i \in DOMAIN uploads : uploads[i] # Basename(videoPath)
             /\ Basename(videoPath) \in done
             /\ PostSucceeded
             /\ Exited
             /\ exitCode = 0

C5_Witness ==
    /\ Exited
    /\ exitCode = 1
    /\ Len(log) = 4
    /\ log[4].resp.kind = "http_error"
    /\ \E i \in DOMAIN uploads : uploads[i] = Basename(videoPath)

\* ---------------------------------------------------------------------- C6
\* C6: a presign response lacking url or key, or a registration response lacking
\* result, aborts the run with exit status 1, and no later stage's call is made.
C6_MissingFieldAborts ==
    \A i \in DOMAIN log :
        LacksRequiredField(log[i]) =>
            /\ i = Len(log)
            /\ Exited
            /\ exitCode = 1

C6_Witness ==
    /\ Len(log) = 3
    /\ log[3].call = "register"
    /\ LacksRequiredField(log[3])
    /\ exitCode = 1

\* ---------------------------------------------------------------------- C7
\* C7: the caption is the default caption when captions.json is missing or its
\* list is empty; with N >= 1 entries it is one of the entries, and every entry
\* can be the one returned.
C7_CaptionFromListOrDefault ==
    /\ pc \notin {"find", "caption"} /\ Selected =>
          /\ (captionsFile.kind = "missing") => caption = DefaultCaption
          /\ (captionsFile.kind = "list" /\ Len(captionsFile.captions) = 0) =>
                caption = DefaultCaption
          /\ (captionsFile.kind = "list" /\ Len(captionsFile.captions) >= 1) =>
                \E i \in DOMAIN captionsFile.captions : caption = captionsFile.captions[i]
    /\ (pc = "caption" /\ captionsFile.kind = "list") =>
          \A i \in DOMAIN captionsFile.captions :
              ENABLED (MainCaption /\ caption' = captionsFile.captions[i])

C7_Witness ==
    /\ pc = "construct"
    /\ captionsFile.kind = "list"
    /\ Len(captionsFile.captions) = 2
    /\ captionsFile.captions[1] # captionsFile.captions[2]
    /\ caption = captionsFile.captions[2]

\* ---------------------------------------------------------------------- C8
\* C8: the remote calls of a run are a prefix of presign, PUT, register, post, each
\* made at most once and only after every earlier one succeeded; a failed call is
\* the last call of the run, which has then ended with exit status 1.
C8_StagesInOrderAtMostOnce ==
    /\ Len(log) <= Len(StageOrder)
    /\ \A i \in DOMAIN log : log[i].call = StageOrder[i]
    /\ \A i \in DOMAIN log :
          StageFailed(log[i]) => (i = Len(log) /\ Exited /\ exitCode = 1)
    /\ Exited \/ Len(log) < Len(StageOrder) \/ pc = "move"

C8_Witness ==
    /\ Len(log) = 4
    /\ \A i \in DOMAIN log : ~StageFailed(log[i])
    /\ pc = "move"

\* ---------------------------------------------------------------------- C9
\* C9: the post-creation request is never submitted with a media record whose
\* location or upload id is missing or empty.
C9_PostHasLocationAndUploadId ==
    \A i \in DOMAIN log :
        log[i].call = "post" =>
            /\ NonEmptyString(log[i].req.id)
            /\ NonEmptyString(log[i].req.location)

\* ---------------------------------------------------------------------- C10
\* a media record with its upload id and its location
CompleteRecord(m) ==
    /\ NonEmptyString(Get(m, "upload_id"))
    /\ NonEmptyString(Get(Get(m, "details"), "location"))

\* the record of a registration body, under result or under result.result
RecordOf(body) ==
    IF CompleteRecord(Get(Get(body, "result"), "result"))
    THEN Get(Get(body, "result"), "result")
    ELSE Get(body, "result")

\* C10: a registration response carrying the media record under result or under
\* result.result is unwrapped and the post is submitted with that record's upload
\* id; a response carrying no result is fatal.
C10_BothNestingsAccepted ==
    \A i \in DOMAIN log :
        (log[i].call = "register" /\ log[i].resp.kind = "ok") =>
            /\ CompleteRecord(RecordOf(log[i].resp.data)) =>
                  /\ pc # "exited" \/ Len(log) = 4
                  /\ Len(log) = 4 =>
                        log[4].req.id = Get(RecordOf(log[i].resp.data), "upload_id")
            /\ LacksRequiredField(log[i]) => (Exited /\ exitCode = 1 /\ Len(log) = 3)

====
